---- MODULE Spec2Model ----
(***************************************************************************)
(* A model of the identification-and-classification pipeline of            *)
(* nn-exercise: WikipediaSearch.search_person (search_tools.py),           *)
(* LLMBackend.identify_person / invoke / identify_person_with_search /     *)
(* batch_identify_people_with_search (llm_backend.py),                     *)
(* categorize_identification / display_identifications /                   *)
(* display_summary_statistics / select_random_people (exercise4.py),       *)
(* format_and_filter_users (exercise2.py), LLMBackend.__init__ over Config *)
(* (config.py) and the tools search_wikipedia_for_person /                 *)
(* identify_person_with_llm / check_if_notable (exercise5.py).             *)
(* Each function has its specification: Spec, SpecCat, SpecBatch, SpecGen, *)
(* SpecAgg, SpecTools, SpecSearch, SpecSelect, SpecInit, SpecFilter,       *)
(* SpecNotable.                                                            *)
(*                                                                         *)
(* Python str values are TLA+ strings (TLC evaluates Len, \o, SubSeq, Head *)
(* and Tail on them).  Values decoded from a JSON response body are tagged *)
(* records (JNull, JNum, JStr, JList, JDict), so that subscripting, len(), *)
(* truthiness and attribute access behave as in Python and raise the       *)
(* exception Python raises.                                                *)
(***************************************************************************)
EXTENDS Integers, Sequences, FiniteSets, TLC

VARIABLES
    pc,              \* position in the run, e.g. "start", "looked", "done", "raised", "categorized"
    first_name,      \* argument of identify_person_with_search
    last_name,       \* argument of identify_person_with_search
    result,          \* the LookupResult dict returned by wiki.search_person
    calls,           \* the outbound calls made so far, in order
    generated,       \* the string returned by invoke or identify_person
    identification,  \* the string returned by identify_person_with_search
    raised,          \* the exception propagating to the caller, or "none"
    http,            \* the HTTP GETs issued by search_person, in order
    categorized,     \* the dict returned by categorize_identification
    responses,       \* what the remote services answered to the function under study
                     \* (in a batch: per pair processed)
    people,          \* argument of batch_identify_people_with_search, the list
                     \* select_random_people returns
    idx,             \* position in people of the pair being processed (from 1)
    results,         \* the dict built by the batch: (key, value) items in insertion order
    returned,        \* what identify_person_with_search returned, per pair processed
    person_name,     \* argument of the exercise5 tools (person_info of check_if_notable)
    tool_result,     \* the string returned by an exercise5 tool
    identifications, \* argument of display_identifications: items in insertion order
    report,          \* what display_identifications printed
    api_response,    \* argument of format_and_filter_users
    filtered_names,  \* the list format_and_filter_users returns, argument of select_random_people
    select_count,    \* argument count of select_random_people
    backend          \* the arguments of LLMBackend(...) and the object constructed

identVars == <<first_name, last_name, result, calls, generated, identification,
              raised, http, categorized>>
batchVars == <<people, idx, results, returned>>
toolVars  == <<person_name, tool_result>>
aggVars   == <<identifications, report>>
pipeVars  == <<api_response, filtered_names, select_count, backend>>

vars == <<pc, identVars, responses, batchVars, toolVars, aggVars, pipeVars>>

(***************************************************************************)
(* Bounds of the model.                                                    *)
(***************************************************************************)
\* Number of fragments concatenated into a generative completion.
MaxGenFrags == 2
\* Number of fragments concatenated into a categorizer input text.
MaxFrags == 2

(***************************************************************************)
(* Python str operations.                                                  *)
(***************************************************************************)
\* `p in s` for a non-empty p.
Contains(s, p) ==
    \E i \in 1..(Len(s) - Len(p) + 1) :
        /\ SubSeq(s, i, i) = SubSeq(p, 1, 1)
        /\ SubSeq(s, i, i + Len(p) - 1) = p

\* s.endswith(p)
EndsWith(s, p) ==
    /\ Len(s) >= Len(p)
    /\ SubSeq(s, Len(s) - Len(p) + 1, Len(s)) = p

\* s.startswith(p)
StartsWith(s, p) ==
    /\ Len(s) >= Len(p)
    /\ SubSeq(s, 1, Len(p)) = p

UpperCase == "ABCDEFGHIJKLMNOPQRSTUVWXYZ"
LowerCase == "abcdefghijklmnopqrstuvwxyz"

LowerChar(c) ==
    IF \E i \in 1..Len(UpperCase) : SubSeq(UpperCase, i, i) = c
    THEN LET i == CHOOSE j \in 1..Len(UpperCase) : SubSeq(UpperCase, j, j) = c
         IN  SubSeq(LowerCase, i, i)
    ELSE c

\* s.lower(), on ASCII text
RECURSIVE lower(_)
lower(s) == IF s = "" THEN "" ELSE LowerChar(Head(s)) \o lower(Tail(s))

IsSpace(c) == c \in {" ", "\n", "\t", "\r"}

RECURSIVE lstrip(_)
lstrip(s) == IF s # "" /\ IsSpace(Head(s)) THEN lstrip(Tail(s)) ELSE s

RECURSIVE rstrip(_)
rstrip(s) ==
    IF s # "" /\ IsSpace(SubSeq(s, Len(s), Len(s)))
    THEN rstrip(SubSeq(s, 1, Len(s) - 1))
    ELSE s

\* s.strip()
strip(s) == rstrip(lstrip(s))

\* s.replace(old, new) for a one-character old
RECURSIVE replace(_, _, _)
replace(s, old, new) ==
    IF s = "" THEN ""
    ELSE (IF Head(s) = old THEN new ELSE Head(s)) \o replace(Tail(s), old, new)

Digits == "0123456789"

\* str(n) for an int n >= 0
RECURSIVE IntToStr(_)
IntToStr(n) ==
    IF n < 10 THEN SubSeq(Digits, n + 1, n + 1)
    ELSE IntToStr(n \div 10) \o SubSeq(Digits, (n % 10) + 1, (n % 10) + 1)

(***************************************************************************)
(* Values decoded from JSON, and Python's operations on them.  Each tag    *)
(* has its own field name, so two values of different tags never compare   *)
(* their payloads.                                                         *)
(***************************************************************************)
JNull == [t |-> "null"]
JNum(n) == [t |-> "num", n |-> n]
JStr(s) == [t |-> "str", s |-> s]
JList(xs) == [t |-> "list", xs |-> xs]
JDict(kv) == [t |-> "dict", kv |-> kv]
\* A response body that is not JSON: response.json() raises on it.
NotJson == [t |-> "invalid"]

\* The outcome of evaluating a Python expression: a value, or a raised exception.
Ok(v) == [ok |-> TRUE, val |-> v]
Raise(exc, msg) == [ok |-> FALSE, exc |-> exc, msg |-> msg]

\* bool(v)
Truthy(v) ==
    CASE v.t = "null" -> FALSE
      [] v.t = "num"  -> v.n # 0
      [] v.t = "str"  -> v.s # ""
      [] v.t = "list" -> Len(v.xs) > 0
      [] v.t = "dict" -> DOMAIN v.kv # {}

\* len(v), for the values len() accepts
PyLen(v) ==
    CASE v.t = "str"  -> Len(v.s)
      [] v.t = "list" -> Len(v.xs)
      [] v.t = "dict" -> Cardinality(DOMAIN v.kv)

\* v[i] for an int i >= 0
GetIndex(v, i) ==
    CASE v.t = "list" ->
            IF i < Len(v.xs) THEN Ok(v.xs[i + 1])
            ELSE Raise("IndexError", "list index out of range")
      [] v.t = "str" ->
            IF i < Len(v.s) THEN Ok(JStr(SubSeq(v.s, i + 1, i + 1)))
            ELSE Raise("IndexError", "string index out of range")
      [] v.t = "dict" -> Raise("KeyError", IntToStr(i))
      [] v.t = "null" -> Raise("TypeError", "'NoneType' object is not subscriptable")
      [] v.t = "num"  -> Raise("TypeError", "'int' object is not subscriptable")

\* v[key] for a str key
GetKey(v, key) ==
    CASE v.t = "dict" ->
            IF key \in DOMAIN v.kv THEN Ok(v.kv[key])
            ELSE Raise("KeyError", "'" \o key \o "'")
      [] v.t = "list" -> Raise("TypeError", "list indices must be integers or slices, not str")
      [] v.t = "str"  -> Raise("TypeError", "string indices must be integers")
      [] v.t = "null" -> Raise("TypeError", "'NoneType' object is not subscriptable")
      [] v.t = "num"  -> Raise("TypeError", "'int' object is not subscriptable")

\* d.get(key) on a Python dict whose values are tagged; None when absent
DictGet(d, key) == IF key \in DOMAIN d THEN d[key] ELSE JNull

\* The text an f-string puts for {v}
Format(v) ==
    CASE v.t = "str"  -> v.s
      [] v.t = "num"  -> IntToStr(v.n)
      [] v.t = "null" -> "None"

(***************************************************************************)
(* HTTP responses of the two external services.  A response is either a    *)
(* transport failure (requests raises: connection error, timeout) or a     *)
(* status with a body.                                                     *)
(***************************************************************************)
TransportFailure(msg) == [kind |-> "exc", msg |-> msg]
HttpResponse(status, body) == [kind |-> "http", status |-> status, body |-> body]

\* response.raise_for_status() raises HTTPError for 4xx and 5xx
IsHttpError(status) == status >= 400 /\ status < 600

BASE_URL == "https://en.wikipedia.org/w/api.php"
REST_URL == "https://en.wikipedia.org/api/rest_v1/page/summary"

(***************************************************************************)
(* WikipediaSearch.search_person.  sresp is the response to the search     *)
(* call and mresp the response to the summary fetch (used only if that     *)
(* call is made).  response.json() on a body that is not JSON raises       *)
(* requests.exceptions.JSONDecodeError, a RequestException.                *)
(***************************************************************************)
\* Lines 51-74, up to the summary fetch: the exception raised, the dict
\* returned for an empty titles array, or the title and url extracted.
SearchStep(full_name, sresp) ==
    LET search_results == sresp.body
        titles  == GetIndex(search_results, 1)
        title   == GetIndex(titles.val, 0)
        has_url == PyLen(search_results) > 3 /\ Truthy(GetIndex(search_results, 3).val)
        url     == IF has_url THEN GetIndex(GetIndex(search_results, 3).val, 0) ELSE Ok(JNull)
    IN
    IF sresp.kind = "exc" THEN Raise("RequestException", sresp.msg)
    ELSE IF IsHttpError(sresp.status)
    THEN Raise("RequestException", IntToStr(sresp.status) \o " Error for url: " \o BASE_URL)
    ELSE IF search_results.t = "invalid"
    THEN Raise("RequestException", "Expecting value: line 1 column 1 (char 0)")
    ELSE IF ~titles.ok THEN titles
    ELSE IF ~Truthy(titles.val)
    THEN Ok([step |-> "return",
             value |-> [found |-> FALSE, name |-> JStr(full_name),
                        summary |-> JNull, url |-> JNull]])
    ELSE IF ~title.ok THEN title
    ELSE IF ~url.ok THEN url
    ELSE IF title.val.t # "str"
    THEN Raise("AttributeError", "object has no attribute 'replace'")
    ELSE Ok([step |-> "fetch", title |-> title.val, url |-> url.val,
             summary_url |-> REST_URL \o "/" \o replace(title.val.s, " ", "_")])

\* Lines 75-94, from the summary fetch on: the exception raised or the dict returned.
SummaryStep(full_name, sresp, got, mresp) ==
    LET search_results == sresp.body
        has_description == PyLen(search_results) > 2 /\ Truthy(GetIndex(search_results, 2).val)
        description == IF has_description
                       THEN GetIndex(GetIndex(search_results, 2).val, 0)
                       ELSE Ok(JStr(""))
        summary_data == mresp.body
        summary ==
            IF mresp.status = 200
            THEN IF summary_data.t = "invalid"
                 THEN Raise("RequestException", "Expecting value: line 1 column 1 (char 0)")
                 ELSE IF summary_data.t # "dict"
                 THEN Raise("AttributeError", "object has no attribute 'get'")
                 ELSE Ok(IF "extract" \in DOMAIN summary_data.kv
                         THEN summary_data.kv["extract"] ELSE JStr(""))
            ELSE description
    IN
    IF mresp.kind = "exc" THEN Raise("RequestException", mresp.msg)
    ELSE IF ~summary.ok THEN summary
    ELSE Ok([found |-> TRUE, name |-> JStr(full_name), title |-> got.title,
             summary |-> summary.val, url |-> got.url])

\* The try block, lines 50-94, with the HTTP GETs it issued.
SearchTry(full_name, sresp, mresp) ==
    LET search_call == [fn |-> "requests.get", url |-> BASE_URL, search |-> full_name]
        s == SearchStep(full_name, sresp)
    IN
    IF ~s.ok THEN [out |-> s, http |-> <<search_call>>]
    ELSE IF s.val.step = "return" THEN [out |-> Ok(s.val.value), http |-> <<search_call>>]
    ELSE [out |-> SummaryStep(full_name, sresp, s.val, mresp),
          http |-> <<search_call,
                     [fn |-> "requests.get", url |-> s.val.summary_url, search |-> ""]>>]

\* The exception classes the except clauses of lines 96 and 105 catch.
CaughtAsRequestFailure(exc) == exc = "RequestException"
CaughtAsBadFormat(exc) == exc \in {"IndexError", "KeyError"}

\* What the caller of search_person sees: a returned LookupResult dict or a
\* propagating exception.
search_person(first, last, sresp, mresp) ==
    LET full_name == first \o " " \o last
        try == SearchTry(full_name, sresp, mresp)
        body == try.out
    IN
    IF body.ok THEN [kind |-> "return", value |-> body.val, http |-> try.http]
    ELSE IF CaughtAsRequestFailure(body.exc)
    THEN [kind |-> "return", http |-> try.http,
          value |-> [found |-> FALSE, name |-> JStr(full_name), summary |-> JNull,
                     url |-> JNull,
                     error |-> JStr("Wikipedia search failed: " \o body.msg)]]
    ELSE IF CaughtAsBadFormat(body.exc)
    THEN [kind |-> "return", http |-> try.http,
          value |-> [found |-> FALSE, name |-> JStr(full_name), summary |-> JNull,
                     url |-> JNull,
                     error |-> JStr("Unexpected Wikipedia response format: " \o body.msg)]]
    ELSE [kind |-> "raise", exc |-> body.exc, msg |-> body.msg, http |-> try.http]

(***************************************************************************)
(* LLMBackend.identify_person and LLMBackend.invoke.  gresp is the         *)
(* response of the chat-completions endpoint.  Both catch every Exception. *)
(***************************************************************************)
\* data["choices"][0]["message"]["content"].strip(), after response.json()
CompletionContent(gresp) ==
    LET data == gresp.body
        choices == GetKey(data, "choices")
        choice  == GetIndex(choices.val, 0)
        message == GetKey(choice.val, "message")
        content == GetKey(message.val, "content")
    IN
    IF data.t = "invalid"
    THEN Raise("JSONDecodeError", "Expecting value: line 1 column 1 (char 0)")
    ELSE IF ~choices.ok THEN choices
    ELSE IF ~choice.ok THEN choice
    ELSE IF ~message.ok THEN message
    ELSE IF ~content.ok THEN content
    ELSE IF content.val.t # "str"
    THEN Raise("AttributeError", "object has no attribute 'strip'")
    ELSE Ok(strip(content.val.s))

\* Variant of identify_person: the handler returns str(e) alone.
identify_person_BareMessage(first, last, gresp) ==
    IF gresp.kind = "exc" THEN gresp.msg
    ELSE IF gresp.status # 200
    THEN "Error identifying person: Error code: " \o IntToStr(gresp.status)
    ELSE IF CompletionContent(gresp).ok THEN CompletionContent(gresp).val
    ELSE CompletionContent(gresp).msg

\* Lines 48-100
identify_person(first, last, gresp) ==
    IF gresp.kind = "exc" THEN "Error identifying person: " \o gresp.msg
    ELSE IF gresp.status # 200
    THEN "Error identifying person: Error code: " \o IntToStr(gresp.status)
    ELSE IF CompletionContent(gresp).ok THEN CompletionContent(gresp).val
    ELSE "Error identifying person: " \o CompletionContent(gresp).msg

invoke(prompt, max_tokens, gresp) ==
    IF gresp.kind = "exc" THEN "Error: " \o gresp.msg
    ELSE IF gresp.status # 200
    THEN "Error: API returned status " \o IntToStr(gresp.status)
    ELSE IF CompletionContent(gresp).ok THEN CompletionContent(gresp).val
    ELSE "Error: " \o CompletionContent(gresp).msg

(***************************************************************************)
(* LLMBackend.identify_person_with_search, after wiki.search_person        *)
(* returned the dict r.                                                    *)
(***************************************************************************)
\* Variant of FoundWithSummary: reads the REST field name "extract", a key
\* the LookupResult never has.
FoundWithSummary_WrongKey(r) == r.found /\ Truthy(DictGet(r, "extract"))

\* Line 123: result["found"] and result.get("summary")
FoundWithSummary(r) == r.found /\ Truthy(DictGet(r, "summary"))

\* Lines 125-130: the summarisation prompt
SummaryPrompt(r) ==
    "Based on this Wikipedia information about " \o Format(r.name) \o ":\n\n"
    \o Format(r.summary)
    \o "\n\nProvide a concise 1-2 sentence summary of who they are and what they're known for."
    \o "\nInclude their profession/field and main achievement."

\* Variant of WithSource: the reference is appended without the url.
WithSource_NoUrl(r, summarised) ==
    IF Truthy(DictGet(r, "url"))
    THEN summarised \o "\n\n(Source: Wikipedia)"
    ELSE summarised

\* Lines 132-138: the identification built from the summarisation result
WithSource(r, summarised) ==
    IF Truthy(DictGet(r, "url"))
    THEN summarised \o "\n\n(Source: Wikipedia - " \o Format(r.url) \o ")"
    ELSE summarised

\* Variant of WithNote: the note of a failed search is worded "failed".
WithNote_FailedWording(r, fallback_result) ==
    IF Truthy(DictGet(r, "error"))
    THEN fallback_result \o "\n\n(Note: Wikipedia search failed)"
    ELSE fallback_result \o "\n\n(Note: No Wikipedia article found)"

\* Variant of WithNote: the two notes are exchanged.
WithNote_Swapped(r, fallback_result) ==
    IF Truthy(DictGet(r, "error"))
    THEN fallback_result \o "\n\n(Note: No Wikipedia article found)"
    ELSE fallback_result \o "\n\n(Note: Wikipedia search encountered an error)"

\* Variant of WithNote: a note is appended only after a failed search.
WithNote_OnlyOnError(r, fallback_result) ==
    IF Truthy(DictGet(r, "error"))
    THEN fallback_result \o "\n\n(Note: Wikipedia search encountered an error)"
    ELSE fallback_result

\* Lines 143-146: the identification built from the pure-knowledge result
WithNote(r, fallback_result) ==
    IF Truthy(DictGet(r, "error"))
    THEN fallback_result \o "\n\n(Note: Wikipedia search encountered an error)"
    ELSE fallback_result \o "\n\n(Note: No Wikipedia article found)"

\* Lines 123-146: the generative call made and the string returned.
IdentifyFromLookup(r, first, last, gresp) ==
    IF FoundWithSummary(r)
    THEN LET summarised == invoke(SummaryPrompt(r), 150, gresp) IN
         [call |-> [fn |-> "invoke", arg |-> SummaryPrompt(r)],
          generated |-> summarised,
          text |-> WithSource(r, summarised)]
    ELSE LET fallback_result == identify_person(first, last, gresp) IN
         [call |-> [fn |-> "identify_person", arg |-> first \o " " \o last],
          generated |-> fallback_result,
          text |-> WithNote(r, fallback_result)]

(***************************************************************************)
(* categorize_identification (exercise4.py).  The category names are the   *)
(* source's without their leading emoji.                                   *)
(***************************************************************************)
FictionKeywords == {"fictional", "character", "anime", "movie", "tv show", "novel"}

\* Variant of Classify: the error rule is tested before the Source marker.
Classify_ErrorFirst(text) ==
    IF Contains(text, "Error") \/ Contains(text, "error")
    THEN <<"Error", "N/A">>
    ELSE IF Contains(text, "(Source: Wikipedia -")
    THEN <<"Verified Notable Person", "High">>
    ELSE IF Contains(text, "No Wikipedia article found")
    THEN IF Contains(text, "Unknown person")
         THEN <<"Unknown/Non-Notable", "Low">>
         ELSE <<"Possibly Notable (Unverified)", "Medium">>
    ELSE IF \E keyword \in FictionKeywords : Contains(lower(text), keyword)
    THEN <<"Fictional Character", "High">>
    ELSE <<"Unknown/Non-Notable", "Low">>

\* Variant of Classify: the error rule tests "Error" only.
Classify_CapitalErrorOnly(text) ==
    IF Contains(text, "(Source: Wikipedia -")
    THEN <<"Verified Notable Person", "High">>
    ELSE IF Contains(text, "Error")
    THEN <<"Error", "N/A">>
    ELSE IF Contains(text, "No Wikipedia article found")
    THEN IF Contains(text, "Unknown person")
         THEN <<"Unknown/Non-Notable", "Low">>
         ELSE <<"Possibly Notable (Unverified)", "Medium">>
    ELSE IF \E keyword \in FictionKeywords : Contains(lower(text), keyword)
    THEN <<"Fictional Character", "High">>
    ELSE <<"Unknown/Non-Notable", "Low">>

\* Variant of Classify: the fictional-character rule is tested before the
\* no-article rule.
Classify_FictionBeforeNoArticle(text) ==
    IF Contains(text, "(Source: Wikipedia -")
    THEN <<"Verified Notable Person", "High">>
    ELSE IF Contains(text, "Error") \/ Contains(text, "error")
    THEN <<"Error", "N/A">>
    ELSE IF \E keyword \in FictionKeywords : Contains(lower(text), keyword)
    THEN <<"Fictional Character", "High">>
    ELSE IF Contains(text, "No Wikipedia article found")
    THEN IF Contains(text, "Unknown person")
         THEN <<"Unknown/Non-Notable", "Low">>
         ELSE <<"Possibly Notable (Unverified)", "Medium">>
    ELSE <<"Unknown/Non-Notable", "Low">>

\* Variant of Classify: the keywords are looked up without lower().
Classify_CaseSensitive(text) ==
    IF Contains(text, "(Source: Wikipedia -")
    THEN <<"Verified Notable Person", "High">>
    ELSE IF Contains(text, "Error") \/ Contains(text, "error")
    THEN <<"Error", "N/A">>
    ELSE IF Contains(text, "No Wikipedia article found")
    THEN IF Contains(text, "Unknown person")
         THEN <<"Unknown/Non-Notable", "Low">>
         ELSE <<"Possibly Notable (Unverified)", "Medium">>
    ELSE IF \E keyword \in FictionKeywords : Contains(text, keyword)
    THEN <<"Fictional Character", "High">>
    ELSE <<"Unknown/Non-Notable", "Low">>

\* Lines 52-75: the (category, confidence) the if/elif chain selects
Classify(text) ==
    IF Contains(text, "(Source: Wikipedia -")
    THEN <<"Verified Notable Person", "High">>
    ELSE IF Contains(text, "Error") \/ Contains(text, "error")
    THEN <<"Error", "N/A">>
    ELSE IF Contains(text, "No Wikipedia article found")
    THEN IF Contains(text, "Unknown person")
         THEN <<"Unknown/Non-Notable", "Low">>
         ELSE <<"Possibly Notable (Unverified)", "Medium">>
    ELSE IF LET lowered == lower(text)
            IN  \E keyword \in FictionKeywords : Contains(lowered, keyword)
    THEN <<"Fictional Character", "High">>
    ELSE <<"Unknown/Non-Notable", "Low">>

categorize_identification(full_name, ident) ==
    LET rule == Classify(ident) IN
    [name |-> full_name,
     category |-> rule[1],
     confidence |-> rule[2],
     details |-> ident]

(***************************************************************************)
(* The inputs: the names asked about and the responses of the two          *)
(* services.                                                               *)
(***************************************************************************)
RECURSIVE Concats(_, _)
\* The concatenations of at most n elements of F.
Concats(F, n) ==
    IF n = 0 THEN {""}
    ELSE LET shorter == Concats(F, n - 1)
         IN  shorter \cup {a \o b : a \in shorter, b \in F}

PersonNames == {<<"Isaac", "Newton">>, <<"Random", "Person">>}

ArticleUrl == "https://en.wikipedia.org/wiki/Isaac_Newton"
ArticleExtract == "Sir Isaac Newton was an English mathematician, physicist, and astronomer."

\* The titles, descriptions and urls arrays of an OpenSearch answer, well
\* formed or not.
TitleArrays ==
    {JList(<<>>), JList(<<JStr("Isaac Newton")>>), JList(<<JNum(7)>>),
     JNum(7), JNum(0), JNull, JStr("Isaac")}
DescriptionArrays ==
    {JList(<<>>), JList(<<JStr("")>>), JList(<<JStr("English physicist")>>), JNum(7)}
UrlArrays ==
    {JList(<<>>), JList(<<JStr(ArticleUrl)>>), JList(<<JStr("")>>), JNum(7)}

SearchBodies(full_name) ==
    LET q == JStr(full_name) IN
    {NotJson, JNull, JStr("ok"), JDict([error |-> JStr("badrequest")]),
     JList(<<>>), JList(<<q>>)}
    \cup {JList(<<q, t>>) : t \in TitleArrays}
    \cup {JList(<<q, t, d>>) : t \in TitleArrays, d \in DescriptionArrays}
    \cup {JList(<<q, t, d, u>>) : t \in TitleArrays, d \in DescriptionArrays, u \in UrlArrays}

TransportMessages == {"Connection refused", "Read timed out"}

SearchResponses(full_name) ==
    {TransportFailure(m) : m \in TransportMessages}
    \cup {HttpResponse(c, NotJson) : c \in {404, 500}}
    \cup {HttpResponse(200, b) : b \in SearchBodies(full_name)}

SummaryResponses ==
    {TransportFailure(m) : m \in TransportMessages}
    \cup {HttpResponse(404, JDict([title |-> JStr("Not found.")]))}
    \cup {HttpResponse(200, b) :
            b \in {JDict([extract |-> JStr(ArticleExtract)]),
                   JDict([extract |-> JStr("")]),
                   JDict([extract |-> JNull]),
                   JDict([title |-> JStr("Isaac Newton")]),
                   JList(<<>>), NotJson}}

\* Pieces of a completion of the generative service.
GenFragments ==
    {"Unknown person", "Isaac Newton was an English physicist.",
     "A fictional character from a movie.", "Error", " \n",
     "(Source: Wikipedia - https://example.org/x)",
     "(Note: No Wikipedia article found)"}

GenTexts == Concats(GenFragments, MaxGenFrags)

Completion(content) ==
    JDict([choices |-> JList(<<JDict([message |-> JDict([content |-> content])])>>)])

GenBodies ==
    {Completion(JStr(t)) : t \in GenTexts}
    \cup {NotJson, JNull, JDict([error |-> JStr("rate limited")]),
          JDict([choices |-> JList(<<>>)]), Completion(JNull)}

GenResponses ==
    {TransportFailure(m) : m \in TransportMessages}
    \cup {HttpResponse(c, NotJson) : c \in {401, 500}}
    \cup {HttpResponse(200, b) : b \in GenBodies}

\* Pieces of an identification text handed to the categorizer.
CatFragments ==
    {"(Source: Wikipedia - https://en.wikipedia.org/wiki/Isaac_Newton)",
     "Error", "terror", "ERROR", "No Wikipedia article found", "Unknown person",
     "unknown person", "Fictional", "CHARACTER", "anime", "Movie", "TV Show",
     "novel", "a physicist. "}

CatTexts == Concats(CatFragments, MaxFrags)

NoResult == [none |-> TRUE]

\* The values of the variables a specification does not use.
NoIdent ==
    /\ result = NoResult
    /\ calls = <<>>
    /\ http = <<>>
    /\ generated = ""
    /\ identification = ""
    /\ raised = "none"
    /\ categorized = NoResult
NoBatch == people = <<>> /\ idx = 1 /\ results = <<>> /\ returned = <<>>
NoTool  == person_name = "" /\ tool_result = ""
NoAgg   == identifications = <<>> /\ report = NoResult
NoPipe  == api_response = NoResult /\ filtered_names = <<>> /\ select_count = 0 /\ backend = NoResult

(***************************************************************************)
(* The run of one identification: identify_person_with_search and the      *)
(* categorization of what it returned.  Each action is one outbound call   *)
(* of identify_person_with_search with the code that follows it up to the  *)
(* next call.                                                              *)
(***************************************************************************)
Init ==
    /\ pc = "start"
    /\ \E person \in PersonNames : first_name = person[1] /\ last_name = person[2]
    /\ NoIdent
    /\ responses = NoResult
    /\ NoPipe
    /\ NoBatch /\ NoTool /\ NoAgg

\* Variant of AfterGenerate: the generative call is made again.
AfterGenerate_Retry == "looked"

\* Lines 138 and 144-146: identify_person_with_search returns after its one
\* generative call.
AfterGenerate == "done"

\* Lines 120-121: wiki.search_person(first_name, last_name), answered by one
\* of sresps and, if the summary is fetched, one of mresps.  With keep the
\* responses received are appended to the history of the batch.
LookupWith(sresps, mresps, keep) ==
    /\ pc = "start"
    /\ \E sresp \in sresps, mresp \in mresps :
         LET r == search_person(first_name, last_name, sresp, mresp) IN
         /\ http' = r.http
         /\ responses' = IF keep
                         THEN Append(responses, [search |-> sresp, summary |-> mresp,
                                                 gen |-> NoResult])
                         ELSE responses
         /\ IF r.kind = "return"
            THEN /\ result' = r.value
                 /\ pc' = "looked"
                 /\ raised' = raised
            ELSE /\ result' = result
                 /\ pc' = "raised"
                 /\ raised' = r.exc
    /\ calls' = Append(calls, [fn |-> "search_person",
                               arg |-> first_name \o " " \o last_name,
                               at |-> idx])
    /\ UNCHANGED <<first_name, last_name, generated, identification, categorized,
                   batchVars, toolVars, aggVars, pipeVars>>

\* Lines 123-146: the generative call and the return, the completion
\* endpoint answering with one of gresps
GenerateWith(gresps, keep) ==
    /\ pc = "looked"
    /\ \E gresp \in gresps :
         LET out == IdentifyFromLookup(result, first_name, last_name, gresp) IN
         /\ responses' = IF keep
                         THEN [responses EXCEPT ![Len(responses)].gen = gresp]
                         ELSE responses
         /\ generated' = out.generated
         /\ identification' = out.text
         /\ calls' = Append(calls, [fn |-> out.call.fn, arg |-> out.call.arg,
                                    at |-> idx])
    /\ pc' = AfterGenerate
    /\ UNCHANGED <<first_name, last_name, result, raised, http, categorized,
                   batchVars, toolVars, aggVars, pipeVars>>

Lookup ==
    LookupWith(SearchResponses(first_name \o " " \o last_name), SummaryResponses, FALSE)

Generate == GenerateWith(GenResponses, FALSE)

\* exercise4.py lines 93-96: the returned identification is categorized
Categorize ==
    /\ pc = "done"
    /\ categorized' = categorize_identification(first_name \o " " \o last_name,
                                                identification)
    /\ pc' = "categorized"
    /\ UNCHANGED <<first_name, last_name, result, calls, generated, identification,
                   raised, http, responses, batchVars, toolVars, aggVars, pipeVars>>

Next == Lookup \/ Generate \/ Categorize

Spec == Init /\ [][Next]_vars

(***************************************************************************)
(* categorize_identification as a function of its input text.              *)
(***************************************************************************)
InitCat ==
    /\ pc = "text"
    /\ \E person \in PersonNames : first_name = person[1] /\ last_name = person[2]
    /\ identification \in CatTexts
    /\ generated = ""
    /\ result = NoResult
    /\ calls = <<>>
    /\ http = <<>>
    /\ raised = "none"
    /\ categorized = NoResult
    /\ responses = NoResult
    /\ NoPipe
    /\ NoBatch /\ NoTool /\ NoAgg

CategorizeText ==
    /\ pc = "text"
    /\ categorized' = categorize_identification(first_name \o " " \o last_name,
                                                identification)
    /\ pc' = "categorized"
    /\ UNCHANGED <<first_name, last_name, result, calls, generated, identification,
                   raised, http, responses, batchVars, toolVars, aggVars, pipeVars>>

NextCat == CategorizeText

SpecCat == InitCat /\ [][NextCat]_vars

(***************************************************************************)
(* LLMBackend.batch_identify_people_with_search (llm_backend.py lines      *)
(* 167-184).  A Python dict is the sequence of its items in insertion      *)
(* order.  The batch runs identify_person_with_search for one pair after   *)
(* the other; an exception of that call leaves the loop and the function.  *)
(***************************************************************************)
\* Number of pairs in the input list of a batch.
MaxPeople == 2

\* d[key] = value: a present key keeps its place, a new key goes last
DictSet(d, key, value) ==
    IF \E i \in 1..Len(d) : d[i].key = key
    THEN [i \in 1..Len(d) |-> IF d[i].key = key
                              THEN [key |-> key, value |-> value]
                              ELSE d[i]]
    ELSE Append(d, [key |-> key, value |-> value])

\* Two of the pairs have the same full name "Mary Ann Smith".
BatchPeople == {<<"Isaac", "Newton">>, <<"Mary Ann", "Smith">>, <<"Mary", "Ann Smith">>}

PeopleLists == UNION {[1..n -> BatchPeople] : n \in 0..MaxPeople}

\* The search call fails, answers with the JSON body null, finds nothing,
\* or finds the article.
BatchSearchResponses(full_name) ==
    {TransportFailure("Read timed out"),
     HttpResponse(200, JNull),
     HttpResponse(200, JList(<<JStr(full_name), JList(<<>>), JList(<<>>), JList(<<>>)>>)),
     HttpResponse(200, JList(<<JStr(full_name), JList(<<JStr(full_name)>>),
                               JList(<<JStr("")>>), JList(<<JStr(ArticleUrl)>>)>>))}

BatchSummaryResponses == {HttpResponse(200, JDict([extract |-> JStr(ArticleExtract)]))}

BatchGenResponses ==
    {HttpResponse(200, Completion(JStr("Unknown person"))),
     HttpResponse(200, Completion(JStr("An English physicist."))),
     HttpResponse(500, NotJson)}

InitBatch ==
    /\ pc = "batch"
    /\ people \in PeopleLists
    /\ idx = 1
    /\ results = <<>>
    /\ returned = <<>>
    /\ first_name = ""
    /\ last_name = ""
    /\ NoIdent
    /\ responses = <<>>
    /\ NoPipe
    /\ NoTool /\ NoAgg

\* Lines 177-179: results = {} and the entry of the loop
BatchStart ==
    /\ pc = "batch"
    /\ results' = <<>>
    /\ IF people = <<>>
       THEN pc' = "returned" /\ UNCHANGED <<first_name, last_name>>
       ELSE /\ pc' = "start"
            /\ first_name' = people[1][1]
            /\ last_name' = people[1][2]
    /\ UNCHANGED <<result, calls, generated, identification, raised, http,
                   categorized, responses, people, idx, returned, toolVars, aggVars, pipeVars>>

BatchLookup ==
    LookupWith(BatchSearchResponses(first_name \o " " \o last_name),
               BatchSummaryResponses, TRUE)

BatchGenerate == GenerateWith(BatchGenResponses, TRUE)

\* Lines 180-184: the returned identification is stored under the full
\* name; the loop goes to the next pair, or the function returns results
BatchStore ==
    /\ pc = "done"
    /\ returned' = Append(returned, identification)
    /\ results' = DictSet(results, first_name \o " " \o last_name, identification)
    /\ IF idx < Len(people)
       THEN /\ idx' = idx + 1
            /\ first_name' = people[idx + 1][1]
            /\ last_name' = people[idx + 1][2]
            /\ pc' = "start"
       ELSE /\ pc' = "returned"
            /\ UNCHANGED <<idx, first_name, last_name>>
    /\ UNCHANGED <<result, calls, generated, identification, raised, http,
                   categorized, responses, people, toolVars, aggVars, pipeVars>>

NextBatch == BatchStart \/ BatchLookup \/ BatchGenerate \/ BatchStore

SpecBatch == InitBatch /\ [][NextBatch]_vars

(***************************************************************************)
(* LLMBackend.identify_person and LLMBackend.invoke, each called once      *)
(* against every response of the completion endpoint.                      *)
(***************************************************************************)
\* A prompt handed to invoke.
GenPrompt == "Who is " \o first_name \o " " \o last_name \o "?"

InitGen ==
    /\ pc = "gen"
    /\ \E person \in PersonNames : first_name = person[1] /\ last_name = person[2]
    /\ NoIdent
    /\ responses = NoResult
    /\ NoPipe
    /\ NoBatch /\ NoTool /\ NoAgg

\* llm_backend.py lines 48-100
CallIdentifyPerson ==
    /\ pc = "gen"
    /\ \E gresp \in GenResponses :
         /\ responses' = [gen |-> gresp]
         /\ generated' = identify_person(first_name, last_name, gresp)
    /\ calls' = Append(calls, [fn |-> "identify_person",
                               arg |-> first_name \o " " \o last_name, at |-> idx])
    /\ pc' = "identified"
    /\ UNCHANGED <<first_name, last_name, result, identification, raised, http,
                   categorized, batchVars, toolVars, aggVars, pipeVars>>

\* llm_backend.py lines 190-232
CallInvoke ==
    /\ pc = "gen"
    /\ \E gresp \in GenResponses :
         /\ responses' = [gen |-> gresp]
         /\ generated' = invoke(GenPrompt, 300, gresp)
    /\ calls' = Append(calls, [fn |-> "invoke", arg |-> GenPrompt, at |-> idx])
    /\ pc' = "invoked"
    /\ UNCHANGED <<first_name, last_name, result, identification, raised, http,
                   categorized, batchVars, toolVars, aggVars, pipeVars>>

NextGen == CallIdentifyPerson \/ CallInvoke

SpecGen == InitGen /\ [][NextGen]_vars

(***************************************************************************)
(* display_identifications and display_summary_statistics (exercise4.py    *)
(* lines 85-200).  What they print is the record report: the header, the   *)
(* quick-stats line, one section per category and the summary statistics.  *)
(* Percentages are the integers the format shows: whole percents for       *)
(* ":.0f", tenths of a percent for ":.1f".                                 *)
(***************************************************************************)
\* Number of entries of the mapping given to display_identifications.
MaxResults == 5

\* n/d rounded to the nearest integer, a tie going to the even one, as the
\* format specifications ".0f" and ".1f" round
RoundHalfEven(n, d) ==
    LET q == n \div d
        r == n % d
    IN  IF 2 * r < d THEN q
        ELSE IF 2 * r > d THEN q + 1
        ELSE IF q % 2 = 0 THEN q ELSE q + 1

\* count/total*100 formatted with ".0f" (scale 1) or ".1f" (scale 10);
\* total = 0 is ZeroDivisionError
Percent(count, total, scale) ==
    IF total = 0 THEN Raise("ZeroDivisionError", "division by zero")
    ELSE Ok(RoundHalfEven(count * 100 * scale, total))

Reverse(seq) == [i \in 1..Len(seq) |-> seq[Len(seq) + 1 - i]]

\* Lines 93-96: the list of categorized results, in the order of the mapping
CategorizeAll(ids) ==
    [i \in 1..Len(ids) |-> categorize_identification(ids[i].key, ids[i].value)]

\* Lines 99-105: the keys of the categories dict, in the order written
DisplayOrder ==
    <<"Verified Notable Person", "Possibly Notable (Unverified)", "Fictional Character",
      "Unknown/Non-Notable", "Error">>

\* Variant of GroupByCategory: a result is put at the front of its list.
GroupByCategory_Prepend(cs) ==
    [k \in 1..Len(DisplayOrder) |->
        [category |-> DisplayOrder[k],
         items |-> Reverse(SelectSeq(cs, LAMBDA r : r.category = DisplayOrder[k]))]]

\* Lines 98-108: the categories dict after the grouping loop
GroupByCategory(cs) ==
    [k \in 1..Len(DisplayOrder) |->
        [category |-> DisplayOrder[k],
         items |-> SelectSeq(cs, LAMBDA r : r.category = DisplayOrder[k])]]

\* len(categories[category])
GroupSize(groups, category) ==
    LET k == CHOOSE k \in 1..Len(groups) : groups[k].category = category
    IN  Len(groups[k].items)

\* category_counts.get(cat, 0)
CountOf(counts, cat) ==
    IF \E i \in 1..Len(counts) : counts[i].key = cat
    THEN LET i == CHOOSE i \in 1..Len(counts) : counts[i].key = cat
         IN  counts[i].value
    ELSE 0

RECURSIVE CategoryCounts_NoIncrement(_, _)
\* Variant of CategoryCounts: category_counts[cat] = 1 for every result.
CategoryCounts_NoIncrement(cs, n) ==
    IF n = 0 THEN <<>>
    ELSE LET before == CategoryCounts_NoIncrement(cs, n - 1)
         IN  DictSet(before, cs[n].category, 1)

RECURSIVE CategoryCounts(_, _)
\* Lines 181-184: category_counts, a dict in first-seen order, after the
\* loop went through the first n results
CategoryCounts(cs, n) ==
    IF n = 0 THEN <<>>
    ELSE LET before == CategoryCounts(cs, n - 1)
             cat == cs[n].category
         IN  DictSet(before, cat, CountOf(before, cat) + 1)

\* Lines 164-200.  With no result only "No results to display" is printed
\* and the other fields are not.
display_summary_statistics(cs) ==
    LET total == Len(cs)
        counts == CategoryCounts(cs, total)
        verified == CountOf(counts, "Verified Notable Person")
    IN
    IF total = 0
    THEN [no_results |-> TRUE, total |-> 0, lines |-> <<>>, verified |-> 0,
          rate |-> 0, note |-> FALSE]
    ELSE [no_results |-> FALSE,
          total |-> total,
          lines |-> [i \in 1..Len(counts) |->
                        [category |-> counts[i].key, count |-> counts[i].value,
                         percent |-> Percent(counts[i].value, total, 10).val]],
          verified |-> verified,
          rate |-> Percent(verified, total, 10).val,
          note |-> (verified = 0)]

\* Lines 124-156: one section per category, in the order of the dict; an
\* item is shown with its name, confidence and details
Sections(groups) ==
    [k \in 1..Len(groups) |->
        [category |-> groups[k].category,
         count |-> Len(groups[k].items),
         none_found |-> (groups[k].items = <<>>),
         items |-> groups[k].items]]

\* Lines 85-161
display_identifications(ids) ==
    LET cs == CategorizeAll(ids)
        groups == GroupByCategory(cs)
        total == Len(cs)
        verified == GroupSize(groups, "Verified Notable Person")
        unknown == GroupSize(groups, "Unknown/Non-Notable")
    IN
    IF ~Percent(verified, total, 1).ok
    THEN [raised |-> Percent(verified, total, 1).exc,
          out |-> [header |-> TRUE, groups |-> groups, quick |-> NoResult,
                   sections |-> <<>>, summary |-> NoResult]]
    ELSE [raised |-> "none",
          out |-> [header |-> TRUE, groups |-> groups,
                   quick |-> [total |-> total,
                              verified |-> verified,
                              verified_percent |-> Percent(verified, total, 1).val,
                              unknown |-> unknown,
                              unknown_percent |-> Percent(unknown, total, 1).val],
                   sections |-> Sections(groups),
                   summary |-> display_summary_statistics(cs)]]

\* One identification text for each category.
AggTexts ==
    {"A physicist.\n\n(Source: Wikipedia - https://w.org/N)",
     "A physicist.\n\n(Note: No Wikipedia article found)",
     "A novel's hero.",
     "Unknown person\n\n(Note: No Wikipedia article found)",
     "Error: Read timed out"}

\* A mapping of distinct names to identification texts.
AggMappings ==
    UNION {{[i \in 1..n |-> [key |-> "Person " \o IntToStr(i), value |-> texts[i]]] :
               texts \in [1..n -> AggTexts]} : n \in 0..MaxResults}

InitAgg ==
    /\ pc = "display"
    /\ identifications \in AggMappings
    /\ report = NoResult
    /\ first_name = ""
    /\ last_name = ""
    /\ NoIdent
    /\ responses = NoResult
    /\ NoPipe
    /\ NoBatch /\ NoTool

\* display_identifications(identifications)
DisplayIdentifications ==
    /\ pc = "display"
    /\ \E d \in {display_identifications(identifications)} :
       /\ report' = d.out
       /\ raised' = d.raised
       /\ pc' = IF d.raised = "none" THEN "displayed" ELSE "raised"
    /\ UNCHANGED <<first_name, last_name, result, calls, generated, identification,
                   http, categorized, responses, batchVars, toolVars, identifications, pipeVars>>

NextAgg == DisplayIdentifications

SpecAgg == InitAgg /\ [][NextAgg]_vars

(***************************************************************************)
(* The tools of exercise5.py: search_wikipedia_for_person and              *)
(* identify_person_with_llm.  Both split the name at its first space and   *)
(* catch every Exception.                                                  *)
(***************************************************************************)
\* Variant of split_once: the name is split at its last space.
split_last(s) ==
    IF ~Contains(s, " ") THEN <<s>>
    ELSE LET i == CHOOSE i \in 1..Len(s) :
                      /\ SubSeq(s, i, i) = " "
                      /\ \A j \in (i + 1)..Len(s) : SubSeq(s, j, j) # " "
         IN  <<SubSeq(s, 1, i - 1), SubSeq(s, i + 1, Len(s))>>

\* s.split(' ', 1)
split_once(s) ==
    IF ~Contains(s, " ") THEN <<s>>
    ELSE LET i == CHOOSE i \in 1..Len(s) :
                      /\ SubSeq(s, i, i) = " "
                      /\ \A j \in 1..(i - 1) : SubSeq(s, j, j) # " "
         IN  <<SubSeq(s, 1, i - 1), SubSeq(s, i + 1, Len(s))>>

\* Variant of ValidNameParts: any name is let through.
ValidNameParts_AtLeastOne(parts) == Len(parts) >= 1

\* exercise5.py lines 109 and 141: len(parts) != 2 rejects the name
ValidNameParts(parts) == Len(parts) = 2

InvalidNameFormat == "Invalid name format. Expected 'FirstName LastName'"

\* first_name, last_name = parts
UnpackTwo(parts) ==
    IF Len(parts) = 2 THEN Ok(parts)
    ELSE Raise("ValueError", "not enough values to unpack (expected 2, got "
                             \o IntToStr(Len(parts)) \o ")")

\* exercise5.py lines 116-125: the string built from what search_person
\* returned, or from the exception it raised
LookupReport(name, r) ==
    IF r.kind = "raise"
    THEN "Error searching Wikipedia: " \o r.msg
    ELSE IF FoundWithSummary(r.value)
    THEN "Wikipedia article found for " \o Format(r.value.name) \o ":\n\n"
         \o Format(r.value.summary)
         \o (IF Truthy(DictGet(r.value, "url"))
             THEN "\n\nSource: " \o Format(r.value.url)
             ELSE "")
    ELSE "No Wikipedia article found for " \o name

\* exercise5.py lines 96-125.  called tells whether wiki.search_person was
\* called.
search_wikipedia_for_person(name, sresp, mresp) ==
    LET parts == split_once(name) IN
    IF ~ValidNameParts(parts)
    THEN [text |-> InvalidNameFormat, called |-> FALSE, http |-> <<>>]
    ELSE IF ~UnpackTwo(parts).ok
    THEN [text |-> "Error searching Wikipedia: " \o UnpackTwo(parts).msg,
          called |-> FALSE, http |-> <<>>]
    ELSE (LET r == search_person(parts[1], parts[2], sresp, mresp)
          IN  [text |-> LookupReport(name, r), called |-> TRUE, http |-> r.http])

\* config.py lines 40-61: Config.get_openrouter_api_key, env_key being the
\* value of OPENROUTER_API_KEY ("" when it is not set)
get_openrouter_api_key(env_key) ==
    IF env_key = ""
    THEN Raise("ValueError",
               "OpenRouter API key not found. "
               \o "Please set OPENROUTER_API_KEY in your .env file or environment. "
               \o "Get a free API key at https://openrouter.io")
    ELSE Ok(env_key)

\* llm_backend.py line 39: Config.get_openrouter_model(), a method the
\* Config class of config.py does not have
get_openrouter_model ==
    Raise("AttributeError", "type object 'Config' has no attribute 'get_openrouter_model'")

\* llm_backend.py lines 31-46: LLMBackend() with no argument
LLMBackendNoArgs(env_key) ==
    IF ~get_openrouter_api_key(env_key).ok THEN get_openrouter_api_key(env_key)
    ELSE IF ~get_openrouter_model.ok THEN get_openrouter_model
    ELSE Ok([api_key |-> get_openrouter_api_key(env_key).val,
             model |-> get_openrouter_model.val])

\* exercise5.py lines 128-148.  called tells whether llm.identify_person was
\* called.
identify_person_with_llm(name, env_key, gresp) ==
    LET parts == split_once(name) IN
    IF ~ValidNameParts(parts)
    THEN [text |-> InvalidNameFormat, called |-> FALSE]
    ELSE IF ~UnpackTwo(parts).ok
    THEN [text |-> "Error identifying person: " \o UnpackTwo(parts).msg,
          called |-> FALSE]
    ELSE IF ~LLMBackendNoArgs(env_key).ok
    THEN [text |-> "Error identifying person: " \o LLMBackendNoArgs(env_key).msg,
          called |-> FALSE]
    ELSE [text |-> identify_person(parts[1], parts[2], gresp), called |-> TRUE]

\* Names given to the tools: without a space, with one, with more, with a
\* trailing one.
ToolNames ==
    {"Madonna", "Cher", "", "Isaac Newton", "Ada Lovelace", "Mary Ann Smith",
     "Random Person", "Newton "}

\* Values of OPENROUTER_API_KEY.
EnvKeys == {"", "sk-or-test"}

InitTools ==
    /\ pc = "tool"
    /\ person_name \in ToolNames
    /\ tool_result = ""
    /\ first_name = ""
    /\ last_name = ""
    /\ NoIdent
    /\ responses = NoResult
    /\ NoPipe
    /\ NoBatch /\ NoAgg

SearchWikipediaForPerson ==
    /\ pc = "tool"
    /\ \E sresp \in SearchResponses(person_name), mresp \in SummaryResponses :
       \E out \in {search_wikipedia_for_person(person_name, sresp, mresp)} :
         /\ tool_result' = out.text
         /\ http' = out.http
         /\ calls' = IF out.called
                     THEN Append(calls, [fn |-> "search_person", arg |-> person_name,
                                         at |-> idx])
                     ELSE calls
    /\ pc' = "wiki_tool_done"
    /\ UNCHANGED <<first_name, last_name, result, generated, identification, raised,
                   categorized, responses, batchVars, person_name, aggVars, pipeVars>>

IdentifyPersonWithLlm ==
    /\ pc = "tool"
    /\ \E env_key \in EnvKeys, gresp \in BatchGenResponses :
       \E out \in {identify_person_with_llm(person_name, env_key, gresp)} :
         /\ tool_result' = out.text
         /\ calls' = IF out.called
                     THEN Append(calls, [fn |-> "identify_person", arg |-> person_name,
                                         at |-> idx])
                     ELSE calls
    /\ pc' = "llm_tool_done"
    /\ UNCHANGED <<first_name, last_name, result, generated, identification, raised,
                   http, categorized, responses, batchVars, person_name, aggVars, pipeVars>>

NextTools == SearchWikipediaForPerson \/ IdentifyPersonWithLlm

SpecTools == InitTools /\ [][NextTools]_vars

(***************************************************************************)
(* WikipediaSearch.search_person called once, with the responses it was    *)
(* given kept in responses: that of the search call and, when the summary  *)
(* was fetched, that of the summary fetch.                                 *)
(***************************************************************************)
InitSearch ==
    /\ pc = "lookup"
    /\ \E person \in PersonNames : first_name = person[1] /\ last_name = person[2]
    /\ NoIdent
    /\ responses = NoResult
    /\ NoPipe
    /\ NoBatch /\ NoTool /\ NoAgg

\* search_tools.py lines 22-113
SearchPerson ==
    /\ pc = "lookup"
    /\ \E sresp \in SearchResponses(first_name \o " " \o last_name),
          mresp \in SummaryResponses :
       \E r \in {search_person(first_name, last_name, sresp, mresp)} :
         /\ http' = r.http
         /\ responses' = [search |-> sresp,
                          summary |-> IF Len(r.http) = 2 THEN mresp ELSE NoResult]
         /\ IF r.kind = "return"
            THEN result' = r.value /\ raised' = raised
            ELSE result' = result /\ raised' = r.exc
    /\ calls' = Append(calls, [fn |-> "search_person",
                               arg |-> first_name \o " " \o last_name,
                               at |-> idx])
    /\ pc' = "searched"
    /\ UNCHANGED <<first_name, last_name, generated, identification, categorized,
                   batchVars, toolVars, aggVars, pipeVars>>

NextSearch == SearchPerson

SpecSearch == InitSearch /\ [][NextSearch]_vars

(***************************************************************************)
(* select_random_people (exercise4.py lines 15-37).  random.sample picks   *)
(* sample_size distinct positions of the list, in any order.               *)
(***************************************************************************)
\* Number of names in the list given to select_random_people.
MaxNames == 3

Min(a, b) == IF a <= b THEN a ELSE b

\* The orders random.sample(population of n, k) can give: k distinct
\* positions
SampleOrders(n, k) ==
    {order \in [1..k -> 1..n] : \A i, j \in 1..k : i # j => order[i] # order[j]}

\* Lines 31-35: the pairs of the selected names that split in two
PairsOf(selected) ==
    LET kept == SelectSeq(selected, LAMBDA full_name : Len(split_once(full_name)) = 2)
    IN  [i \in 1..Len(kept) |-> split_once(kept[i])]

\* Lines 27-37, random.sample having picked the positions order
select_random_people(names, count, order) ==
    PairsOf([i \in 1..Len(order) |-> names[order[i]]])

\* Names of the list: two words, three words, one word, a leading space, a
\* trailing space, two consecutive spaces.
NamePool ==
    {"Isaac Newton", "Mary Ann Smith", "Madonna", " Newton", "Newton ", "Mary  Smith"}

NameLists == UNION {[1..n -> NamePool] : n \in 0..MaxNames}

InitSelect ==
    /\ pc = "select"
    /\ filtered_names \in NameLists
    /\ select_count \in 0..(MaxNames + 1)
    /\ api_response = NoResult
    /\ backend = NoResult
    /\ first_name = ""
    /\ last_name = ""
    /\ NoIdent
    /\ responses = NoResult
    /\ NoBatch /\ NoTool /\ NoAgg

SelectRandomPeople ==
    /\ pc = "select"
    /\ \E order \in SampleOrders(Len(filtered_names),
                                 Min(select_count, Len(filtered_names))) :
         people' = select_random_people(filtered_names, select_count, order)
    /\ pc' = "selected"
    /\ UNCHANGED <<identVars, responses, idx, results, returned, toolVars, aggVars,
                   pipeVars>>

NextSelect == SelectRandomPeople

SpecSelect == InitSelect /\ [][NextSelect]_vars

(***************************************************************************)
(* LLMBackend.__init__ (llm_backend.py lines 19-46) over the Config class  *)
(* of config.py.  An argument is JNull (None, the default) or a string;    *)
(* an environment variable is JNull (not set) or a string.                 *)
(***************************************************************************)
\* config.py line 72: os.getenv("OPENROUTER_BASE_URL", "https://openrouter.ai/api/v1")
get_openrouter_base_url(env_base) ==
    IF env_base = JNull THEN "https://openrouter.ai/api/v1" ELSE env_base.s

\* config.py lines 52-61 with os.getenv("OPENROUTER_API_KEY") being env_key
ConfigApiKey(env_key) ==
    get_openrouter_api_key(IF env_key = JNull THEN "" ELSE env_key.s)

\* Lines 31-46.  consulted is the set of Config methods that were called.
LLMBackend_init(api_key, model, base_url, env_key, env_base) ==
    LET key == IF Truthy(api_key) THEN Ok(api_key.s) ELSE ConfigApiKey(env_key)
        c1  == IF Truthy(api_key) THEN {} ELSE {"get_openrouter_api_key"}
        mod == IF Truthy(model) THEN Ok(model.s) ELSE get_openrouter_model
        c2  == IF Truthy(model) THEN c1 ELSE c1 \cup {"get_openrouter_model"}
        c3  == IF Truthy(base_url) THEN c2 ELSE c2 \cup {"get_openrouter_base_url"}
    IN  IF ~key.ok THEN [raised |-> key.exc, consulted |-> c1, self |-> NoResult]
        ELSE IF ~mod.ok THEN [raised |-> mod.exc, consulted |-> c2, self |-> NoResult]
        ELSE [raised |-> "none", consulted |-> c3,
              self |-> [api_key |-> key.val,
                        model |-> mod.val,
                        base_url |-> IF Truthy(base_url) THEN base_url.s
                                     ELSE get_openrouter_base_url(env_base)
                                              \o "/chat/completions"]]

\* Constructor arguments and environment.
ApiKeyArgs == {JNull, JStr(""), JStr("sk-or-arg")}
ModelArgs == {JNull, JStr(""), JStr("meta-llama/llama-3-8b")}
BaseUrlArgs == {JNull, JStr(""), JStr("https://custom.example/api")}
EnvApiKeys == {JNull, JStr(""), JStr("sk-or-env")}
EnvBaseUrls == {JNull, JStr("https://proxy.example/v1")}

InitInit ==
    /\ pc = "init"
    /\ backend \in [args : [api_key : ApiKeyArgs, model : ModelArgs, base_url : BaseUrlArgs],
                    env : [key : EnvApiKeys, base : EnvBaseUrls],
                    consulted : {{}},
                    self : {NoResult}]
    /\ api_response = NoResult
    /\ filtered_names = <<>>
    /\ select_count = 0
    /\ first_name = ""
    /\ last_name = ""
    /\ NoIdent
    /\ responses = NoResult
    /\ NoBatch /\ NoTool /\ NoAgg

Construct ==
    /\ pc = "init"
    /\ \E r \in {LLMBackend_init(backend.args.api_key, backend.args.model,
                                 backend.args.base_url, backend.env.key,
                                 backend.env.base)} :
         /\ backend' = [backend EXCEPT !.consulted = r.consulted, !.self = r.self]
         /\ raised' = r.raised
         /\ pc' = IF r.raised = "none" THEN "constructed" ELSE "raised"
    /\ UNCHANGED <<first_name, last_name, result, calls, generated, identification,
                   http, categorized, responses, batchVars, toolVars, aggVars,
                   api_response, filtered_names, select_count>>

NextInit == Construct

SpecInit == InitInit /\ [][NextInit]_vars

(***************************************************************************)
(* format_and_filter_users (exercise2.py lines 32-58).  A user record is   *)
(* [name |-> [first, last], dob |-> [date]].                               *)
(***************************************************************************)
\* Number of user records in the response.
MaxUsers == 3

\* s.split('-')[0]
BeforeDash(s) ==
    IF ~Contains(s, "-") THEN s
    ELSE LET i == CHOOSE i \in 1..Len(s) :
                      /\ SubSeq(s, i, i) = "-"
                      /\ \A j \in 1..(i - 1) : SubSeq(s, j, j) # "-"
         IN  SubSeq(s, 1, i - 1)

DigitValue(c) ==
    CASE c = "0" -> 0 [] c = "1" -> 1 [] c = "2" -> 2 [] c = "3" -> 3 [] c = "4" -> 4
      [] c = "5" -> 5 [] c = "6" -> 6 [] c = "7" -> 7 [] c = "8" -> 8 [] c = "9" -> 9
      [] OTHER -> -1

RECURSIVE DigitsToInt(_)
DigitsToInt(s) ==
    IF s = "" THEN 0
    ELSE 10 * DigitsToInt(SubSeq(s, 1, Len(s) - 1)) + DigitValue(SubSeq(s, Len(s), Len(s)))

\* int(s) for a string of decimal digits; ValueError for a string that is
\* empty or has another character
StrToInt(s) ==
    IF s # "" /\ \A i \in 1..Len(s) : DigitValue(SubSeq(s, i, i)) >= 0
    THEN Ok(DigitsToInt(s))
    ELSE Raise("ValueError", "invalid literal for int() with base 10: '" \o s \o "'")

\* Variant of the filter: users born in 2000 are left out.
BornInOrBefore2000_Strict(birth_year) == birth_year < 2000

\* Line 52
BornInOrBefore2000(birth_year) == birth_year <= 2000

\* Lines 46-58: the exception raised, or the list returned
RECURSIVE FilterFrom(_, _)
FilterFrom(users, filtered_users) ==
    IF users = <<>> THEN Ok(filtered_users)
    ELSE LET user == Head(users)
             birth_year == StrToInt(BeforeDash(user.dob.date))
         IN  IF ~birth_year.ok THEN birth_year
             ELSE IF BornInOrBefore2000(birth_year.val)
             THEN FilterFrom(Tail(users),
                             Append(filtered_users,
                                    user.name.first \o " " \o user.name.last))
             ELSE FilterFrom(Tail(users), filtered_users)

format_and_filter_users(response) == FilterFrom(response.results, <<>>)

User(first, last, date) == [name |-> [first |-> first, last |-> last], dob |-> [date |-> date]]

\* User records: born before 2000, in 2000, in 2001, later, and one whose
\* date is not a date.
UserPool ==
    {User("Isaac", "Newton", "1985-03-12"),
     User("Ada", "Lovelace", "2000-12-31"),
     User("Tim", "Young", "2001-01-01"),
     User("Mary Ann", "Smith", "999-07-04"),
     User("Zoe", "Late", "2010-06-15"),
     User("No", "Date", "unknown")}

ApiResponses == {[results |-> users] : users \in UNION {[1..n -> UserPool] : n \in 0..MaxUsers}}

InitFilter ==
    /\ pc = "filter"
    /\ api_response \in ApiResponses
    /\ filtered_names = <<>>
    /\ select_count = 0
    /\ backend = NoResult
    /\ first_name = ""
    /\ last_name = ""
    /\ NoIdent
    /\ responses = NoResult
    /\ NoBatch /\ NoTool /\ NoAgg

FormatAndFilterUsers ==
    /\ pc = "filter"
    /\ \E r \in {format_and_filter_users(api_response)} :
         IF r.ok
         THEN /\ filtered_names' = r.val
              /\ pc' = "filtered"
              /\ raised' = raised
         ELSE /\ filtered_names' = filtered_names
              /\ pc' = "raised"
              /\ raised' = r.exc
    /\ UNCHANGED <<first_name, last_name, result, calls, generated, identification,
                   http, categorized, responses, batchVars, toolVars, aggVars,
                   api_response, select_count, backend>>

NextFilter == FormatAndFilterUsers

SpecFilter == InitFilter /\ [][NextFilter]_vars

(***************************************************************************)
(* check_if_notable (exercise5.py lines 151-178).                          *)
(***************************************************************************)
\* Number of pieces in the text given to check_if_notable.
MaxInfoFrags == 2

\* Lines 167-172
notable_keywords ==
    <<"famous", "renowned", "acclaimed", "Nobel", "Oscar", "Grammy",
      "president", "prime minister", "CEO", "founder", "inventor",
      "scientist", "author", "actor", "actress", "musician", "artist",
      "director", "producer", "athlete", "champion">>

\* Lines 163-178
check_if_notable(person_info) ==
    IF Contains(person_info, "Unknown") \/ Contains(person_info, "Error")
    THEN "NO - Person could not be identified or is unknown"
    ELSE LET person_info_lower == lower(person_info)
         IN  IF \E i \in 1..Len(notable_keywords) :
                    Contains(person_info_lower, notable_keywords[i])
             THEN "YES - Contains notable indicators: " \o person_info
             ELSE "UNCERTAIN - Needs further research: " \o person_info

\* Pieces of an identification handed to check_if_notable.
InfoFragments ==
    {"Unknown person", "Error: timeout", "won the Nobel Prize. ", "an OSCAR winner. ",
     "CEO of Acme. ", "a Famous scientist. ", "a local baker. ", "unknown. ",
     "a musician. "}

InfoTexts == Concats(InfoFragments, MaxInfoFrags)

InitNotable ==
    /\ pc = "notable"
    /\ person_name \in InfoTexts
    /\ tool_result = ""
    /\ first_name = ""
    /\ last_name = ""
    /\ NoIdent
    /\ responses = NoResult
    /\ NoPipe
    /\ NoBatch /\ NoAgg

CheckIfNotable ==
    /\ pc = "notable"
    /\ tool_result' = check_if_notable(person_name)
    /\ pc' = "checked"
    /\ UNCHANGED <<identVars, responses, batchVars, person_name, aggVars, pipeVars>>

NextNotable == CheckIfNotable

SpecNotable == InitNotable /\ [][NextNotable]_vars

(***************************************************************************)
(* Properties.  The predicates below describe a LookupResult and an        *)
(* identification in the words of the specification, without using the     *)
(* operators above that model the code's tests.                            *)
(***************************************************************************)
Returned == pc \in {"done", "categorized"} /\ raised = "none"

LookupFound == "found" \in DOMAIN result /\ result.found
SummaryNonEmpty ==
    "summary" \in DOMAIN result /\ result.summary.t = "str" /\ result.summary.s # ""
UrlPresent == "url" \in DOMAIN result /\ result.url.t = "str" /\ result.url.s # ""
LookupError == "error" \in DOMAIN result

SourceTag == "(Source: Wikipedia - "
ErrorNote == "(Note: Wikipedia search encountered an error)"
NoArticleNote == "(Note: No Wikipedia article found)"

\* C1: search_person never raises to its caller: whatever the search call and
\* the summary fetch answer, it returns a LookupResult dict.
C1_SearchPersonNeverRaises ==
    Len(calls) >= 1 => (raised = "none" /\ pc # "raised" /\ "found" \in DOMAIN result)

\* C2: the authoritative lookup is called first; after a found lookup with a
\* non-empty summary the generative call is invoke on the Wikipedia summary and
\* identify_person is not called; identify_person is called only after a
\* not-found, empty-summary or failed lookup.
C2_LookupFirstThenOneBranch ==
    /\ Len(calls) >= 1 => calls[1].fn = "search_person"
    /\ \A i \in 2..Len(calls) : calls[i].fn # "search_person"
    /\ (Returned /\ LookupFound /\ SummaryNonEmpty) =>
          /\ Len(calls) = 2
          /\ calls[2].fn = "invoke"
          /\ Contains(calls[2].arg, result.summary.s)
    /\ \A i \in 1..Len(calls) :
          calls[i].fn = "identify_person" => ~(LookupFound /\ SummaryNonEmpty)

C2_Witness ==
    /\ Returned /\ LookupFound /\ SummaryNonEmpty
    /\ Len(calls) = 2 /\ calls[2].fn = "invoke"

\* C3: after a found lookup with a non-empty summary and a url, the output is
\* the summarisation result followed by "\n\n(Source: Wikipedia - {url})".
C3_SourceSuffix ==
    (Returned /\ LookupFound /\ SummaryNonEmpty /\ UrlPresent) =>
        /\ identification = generated \o "\n\n" \o SourceTag \o result.url.s \o ")"
        /\ EndsWith(identification, "\n\n(Source: Wikipedia - " \o result.url.s \o ")")
        /\ Contains(identification, result.url.s)

C3_Witness ==
    /\ Returned /\ LookupFound /\ SummaryNonEmpty /\ UrlPresent
    /\ StartsWith(generated, "Error")
    /\ EndsWith(identification, "(Source: Wikipedia - " \o ArticleUrl \o ")")

\* C4: after a not-found, empty-summary or failed lookup, the output is exactly
\* the identify_person result followed by the error note if the LookupResult
\* carries an error and by the no-article note otherwise.
C4_FallbackNote ==
    (Returned /\ ~(LookupFound /\ SummaryNonEmpty)) =>
        /\ calls[2].fn = "identify_person"
        /\ identification =
              generated \o "\n\n" \o (IF LookupError THEN ErrorNote ELSE NoArticleNote)
        /\ (generated = "Unknown person" /\ ~LookupError) =>
              identification = "Unknown person\n\n(Note: No Wikipedia article found)"

C4_Witness ==
    /\ Returned /\ ~LookupFound /\ ~LookupError
    /\ identification = "Unknown person\n\n(Note: No Wikipedia article found)"

HasProvenance(text) ==
    \/ Contains(text, SourceTag)
    \/ Contains(text, ErrorNote)
    \/ Contains(text, NoArticleNote)

\* C5 as stated: every identification returned carries a provenance annotation.
C5_AlwaysProvenance == Returned => HasProvenance(identification)

\* C5 amended: every identification returned carries a provenance annotation,
\* except after a found lookup with a non-empty summary and no url, where the
\* output is the summarisation result with nothing appended.
C5_ProvenanceUnlessNoUrl ==
    Returned =>
        IF LookupFound /\ SummaryNonEmpty /\ ~UrlPresent
        THEN identification = generated
        ELSE HasProvenance(identification)

C5_Witness ==
    /\ Returned /\ ~LookupFound /\ LookupError
    /\ Contains(identification, ErrorNote)
    /\ ~Contains(generated, "(")

\* C6: every identification returned is a non-empty string.
C6_NonEmpty == Returned => identification # ""

(***************************************************************************)
(* Properties of categorize_identification, checked under SpecCat.         *)
(***************************************************************************)
Categorized == pc = "categorized"

HasSourceMarker == Contains(identification, "(Source: Wikipedia -")
HasErrorWord == Contains(identification, "Error") \/ Contains(identification, "error")
HasNoArticle == Contains(identification, "No Wikipedia article found")
HasUnknownPerson == Contains(identification, "Unknown person")

\* Two characters that are the same letter in either case.
SameLetter(c, d) ==
    \/ c = d
    \/ \E i \in 1..Len(UpperCase) :
          {c, d} = {SubSeq(UpperCase, i, i), SubSeq(LowerCase, i, i)}

\* p occurs in s, letter case ignored.
ContainsIgnoreCase(s, p) ==
    \E i \in 1..(Len(s) - Len(p) + 1) :
        \A k \in 1..Len(p) : SameLetter(SubSeq(s, i + k - 1, i + k - 1), SubSeq(p, k, k))

HasFictionKeyword ==
    \E keyword \in {"fictional", "character", "anime", "movie", "tv show", "novel"} :
        ContainsIgnoreCase(identification, keyword)

Is(category, confidence) ==
    categorized.category = category /\ categorized.confidence = confidence

\* C7: a text containing "(Source: Wikipedia -" is Verified Notable Person
\* with confidence High, whatever else it contains.
C7_SourceMarkerWins ==
    (Categorized /\ HasSourceMarker) => Is("Verified Notable Person", "High")

C7_Witness ==
    /\ Categorized /\ HasSourceMarker /\ HasErrorWord
    /\ Is("Verified Notable Person", "High")

\* C8: a text without the Source marker that contains "Error" or "error" is
\* Error with confidence N/A, whatever else it contains.
C8_ErrorBeforeLaterRules ==
    (Categorized /\ ~HasSourceMarker /\ HasErrorWord) => Is("Error", "N/A")

C8_Witness ==
    /\ Categorized /\ ~HasSourceMarker /\ HasFictionKeyword
    /\ Contains(identification, "error") /\ ~Contains(identification, "Error")
    /\ Is("Error", "N/A")

\* C9: a text matching neither rule 1 nor rule 2 that contains "No Wikipedia
\* article found" is Unknown/Non-Notable (Low) if it contains "Unknown person"
\* and Possibly Notable (Unverified) (Medium) otherwise, fictional-character
\* keyword or not.
C9_NoArticleRule ==
    (Categorized /\ ~HasSourceMarker /\ ~HasErrorWord /\ HasNoArticle) =>
        IF HasUnknownPerson
        THEN Is("Unknown/Non-Notable", "Low")
        ELSE Is("Possibly Notable (Unverified)", "Medium")

C9_Witness ==
    /\ Categorized /\ ~HasSourceMarker /\ ~HasErrorWord /\ HasNoArticle
    /\ HasFictionKeyword /\ ~HasUnknownPerson
    /\ Is("Possibly Notable (Unverified)", "Medium")

Categories ==
    {"Verified Notable Person", "Possibly Notable (Unverified)", "Fictional Character",
     "Unknown/Non-Notable", "Error"}

\* C10: a text matching none of rules 1-3 is Fictional Character (High) if it
\* contains one of the six keywords in any letter case and Unknown/Non-Notable
\* (Low) otherwise; every text gets exactly one of the five categories.
C10_FictionOrDefault ==
    Categorized =>
        /\ categorized.category \in Categories
        /\ (~HasSourceMarker /\ ~HasErrorWord /\ ~HasNoArticle) =>
              IF HasFictionKeyword
              THEN Is("Fictional Character", "High")
              ELSE Is("Unknown/Non-Notable", "Low")

C10_Witness ==
    /\ Categorized /\ ~HasSourceMarker /\ ~HasErrorWord /\ ~HasNoArticle
    /\ Contains(identification, "TV Show")
    /\ Is("Fictional Character", "High")

(***************************************************************************)
(* The batch.                                                              *)
(***************************************************************************)
FullName(k) == people[k][1] \o " " \o people[k][2]

\* The batch call is over: it returned the mapping, or an exception left it.
BatchOver == pc \in {"returned", "raised"}

SearchCalls == SelectSeq(calls, LAMBDA c : c.fn = "search_person")

CallsAt(k) == SelectSeq(calls, LAMBDA c : c.at = k)

IsGenerative(c) == c.fn \in {"invoke", "identify_person"}

FirstIndexOf(name) == CHOOSE k \in 1..Len(people) :
    FullName(k) = name /\ \A j \in 1..(k - 1) : FullName(j) # name

LastIndexOf(name) == CHOOSE k \in 1..Len(people) :
    FullName(k) = name /\ \A j \in (k + 1)..Len(people) : FullName(j) # name

\* What the mapping is when every pair was processed: one entry per
\* distinct full name, in first-seen order, holding what the last call for
\* that name returned.
MappingAsClaimed ==
    /\ Len(returned) = Len(people)
    /\ Len(results) = Cardinality({FullName(k) : k \in 1..Len(people)})
    /\ \A i \in 1..Len(results) :
         /\ \E k \in 1..Len(people) : FullName(k) = results[i].key
         /\ results[i].value = returned[LastIndexOf(results[i].key)]
    /\ \A i, j \in 1..Len(results) :
         i < j => FirstIndexOf(results[i].key) < FirstIndexOf(results[j].key)

\* C12: when batch_identify_people_with_search is over it has called
\* identify_person_with_search once for every input pair, in input order
\* and duplicates included, and it has returned a mapping keyed by full
\* name in first-seen order in which a duplicated name holds the result of
\* the later call and the number of entries is the number of distinct names.
C12_EveryPairOnceLastWriteWins ==
    BatchOver =>
        /\ pc = "returned"
        /\ Len(SearchCalls) = Len(people)
        /\ \A k \in 1..Len(people) :
             SearchCalls[k].arg = FullName(k) /\ SearchCalls[k].at = k
        /\ MappingAsClaimed

\* C13: in a batch the calls are sequential per name: the calls for a pair
\* are its lookup followed by at most one generative call, the calls of the
\* log never go back to an earlier pair, and a call for a pair is made only
\* after the generative call of the pair before it was made and
\* identify_person_with_search returned for that pair.
C13_SequentialPerName ==
    /\ \A j, k \in 1..Len(calls) : j < k => calls[j].at <= calls[k].at
    /\ \A k \in 1..Len(people) :
         LET mine == CallsAt(k) IN
         /\ Len(mine) <= 2
         /\ Len(mine) >= 1 => mine[1].fn = "search_person" /\ mine[1].arg = FullName(k)
         /\ Len(mine) = 2 => IsGenerative(mine[2])
    /\ \A k \in 1..Len(calls) :
         calls[k].at > 1 =>
             /\ Len(returned) >= calls[k].at - 1
             /\ \E j \in 1..(k - 1) :
                  calls[j].at = calls[k].at - 1 /\ IsGenerative(calls[j])

\* Two pairs were processed, each with a lookup and a generative call.
C13_Witness ==
    /\ pc = "returned"
    /\ Len(people) = 2
    /\ Len(calls) = 4
    /\ IsGenerative(calls[2]) /\ IsGenerative(calls[4])


(***************************************************************************)
(* The generative calls.                                                   *)
(***************************************************************************)
GenCalled == pc \in {"identified", "invoked"}

GenTransportFailure == responses.gen.kind = "exc"

GenNon200 == responses.gen.kind = "http" /\ responses.gen.status # 200

GenUnparsable == responses.gen.kind = "http" /\ responses.gen.body.t = "invalid"

DisplayOver == pc \in {"displayed", "raised"}

\* The summary statistics were printed for at least one result.
SummaryPrinted ==
    /\ pc = "displayed"
    /\ identifications # <<>>

\* The category categorize_identification assigns to each input, by position.
AssignedCategories ==
    [i \in 1..Len(identifications) |->
        categorize_identification(identifications[i].key,
                                  identifications[i].value).category]

NumberAssigned(assigned, category) ==
    Cardinality({i \in DOMAIN assigned : assigned[i] = category})

\* The count the summary statistics show for a category; a category without
\* a line has count 0.
ReportedCount(category) ==
    LET lines == report.summary.lines IN
    IF \E i \in 1..Len(lines) : lines[i].category = category
    THEN LET i == CHOOSE i \in 1..Len(lines) : lines[i].category = category
         IN  lines[i].count
    ELSE 0

RECURSIVE SumOfCounts(_)
SumOfCounts(lines) ==
    IF lines = <<>> THEN 0
    ELSE lines[1].count + SumOfCounts(Tail(lines))

\* rate, in tenths of a percent, is the nearest to 100 * part / whole
IsPercentTenths(rate, part, whole) ==
    2 * (IF rate * whole >= 1000 * part THEN rate * whole - 1000 * part
                                         ELSE 1000 * part - rate * whole) <= whole

\* 2 verified, 0 possibly notable, 1 fictional, 1 unknown, 1 error
ExampleCounts(assigned) ==
    /\ NumberAssigned(assigned, "Verified Notable Person") = 2
    /\ NumberAssigned(assigned, "Possibly Notable (Unverified)") = 0
    /\ NumberAssigned(assigned, "Fictional Character") = 1
    /\ NumberAssigned(assigned, "Unknown/Non-Notable") = 1
    /\ NumberAssigned(assigned, "Error") = 1

\* C15: display_identifications called with an empty mapping does not
\* raise: it prints the report with a total of 0 people processed and
\* reports no results.
C15_EmptyMappingDoesNotRaise ==
    (DisplayOver /\ identifications = <<>>) =>
        /\ raised = "none"
        /\ report.header
        /\ report.quick.total = 0
        /\ report.summary.no_results

\* C16: for a non-empty list of results the counts of the summary
\* statistics sum to the number of results, a category's count is the
\* number of results categorize_identification assigned to it, and the
\* verification rate is the number of Verified Notable Person results over
\* the total; 2, 0, 1, 1, 1 give a total of 5 and 40.0%.
C16_CountsAndRate ==
    SummaryPrinted =>
        \A assigned \in {AssignedCategories} :
        LET summary == report.summary IN
        /\ ~summary.no_results
        /\ summary.total = Len(identifications)
        /\ SumOfCounts(summary.lines) = summary.total
        /\ \A category \in Categories :
             ReportedCount(category) = NumberAssigned(assigned, category)
        /\ \A i, j \in 1..Len(summary.lines) :
             i # j => summary.lines[i].category # summary.lines[j].category
        /\ summary.verified = NumberAssigned(assigned, "Verified Notable Person")
        /\ IsPercentTenths(summary.rate, summary.verified, summary.total)
        /\ ExampleCounts(assigned) => summary.total = 5 /\ summary.rate = 400

\* The example of the claim, with the verified results not first.
C16_Witness ==
    /\ pc = "displayed"
    /\ Len(identifications) = 5
    /\ \E assigned \in {AssignedCategories} :
         ExampleCounts(assigned) /\ assigned[1] = "Error"
    /\ report.summary.rate = 400

\* The position in the mapping of the result with this name.
InputPosition(name) ==
    CHOOSE i \in 1..Len(identifications) : identifications[i].key = name

ToolDone == pc \in {"wiki_tool_done", "llm_tool_done"}

\* The name is a single word: it has no separating space.
SingleWord == \A i \in 1..Len(person_name) : SubSeq(person_name, i, i) # " "

\* C18: a name with no separating space is rejected by
\* search_wikipedia_for_person and identify_person_with_llm before any
\* call: they return "Invalid name format. Expected 'FirstName LastName'",
\* and neither search_person nor identify_person is called (no HTTP request
\* is issued either).
C18_SingleWordRejectedBeforeCalls ==
    (ToolDone /\ SingleWord) =>
        /\ tool_result = "Invalid name format. Expected 'FirstName LastName'"
        /\ calls = <<>>
        /\ http = <<>>

\* A tool was called with the single word "Madonna".
C18_Witness ==
    /\ ToolDone
    /\ person_name = "Madonna"
    /\ Contains(tool_result, "Invalid name format")

(***************************************************************************)
(* The LookupResult and the two requests of search_person.                 *)
(***************************************************************************)
\* search_person is over and returned a LookupResult.
SearchReturned == pc = "searched" /\ raised = "none"

\* The search call was answered with a JSON body.
SearchAnswered ==
    /\ responses.search.kind = "http"
    /\ ~IsHttpError(responses.search.status)
    /\ responses.search.body.t # "invalid"

\* The k-th array (from 0) of the OpenSearch answer is there.
HasArray(k) ==
    /\ SearchAnswered
    /\ responses.search.body.t = "list"
    /\ Len(responses.search.body.xs) > k

SearchArray(k) == responses.search.body.xs[k + 1]

\* The search returned no title: its titles array is empty.
NoTitle == HasArray(1) /\ SearchArray(1).t = "list" /\ SearchArray(1).xs = <<>>

\* The search returned at least one title.
SomeTitle == HasArray(1) /\ SearchArray(1).t = "list" /\ SearchArray(1).xs # <<>>

\* The short description the search step gave, "" if it gave none.
ShortDescription ==
    IF HasArray(2) /\ Truthy(SearchArray(2))
    THEN IF SearchArray(2).t = "list" THEN SearchArray(2).xs[1] ELSE SearchArray(2)
    ELSE JStr("")

SummaryFetched == Len(http) = 2

\* The summary fetch was answered with a status other than 200.
SummaryNonSuccess ==
    /\ SummaryFetched
    /\ responses.summary.kind = "http"
    /\ responses.summary.status # 200

\* The lookup failed in transport (no answer, an error status, a body that
\* is not JSON) in one of its two requests.
TransportFailed ==
    \/ ~SearchAnswered
    \/ SummaryFetched /\ responses.summary.kind = "exc"
    \/ SummaryFetched /\ responses.summary.kind = "http"
          /\ responses.summary.status = 200 /\ responses.summary.body.t = "invalid"

\* The answer of the search call has the structure of an OpenSearch answer
\* with a title.
ExpectedStructure ==
    /\ SomeTitle
    /\ SearchArray(1).xs[1].t = "str"
    /\ HasArray(2) => SearchArray(2).t = "list"
    /\ HasArray(3) => SearchArray(3).t = "list"

Present(value) == value.t = "str"

\* C19: a returned LookupResult with found=true has its title and its
\* summary present (the summary may be ""); a no-match result has
\* found=false and no error; a result has an error only with found=false
\* and a lookup that failed in transport or met an unexpected structure.
C19_LookupResultInvariants ==
    SearchReturned =>
        /\ result.found =>
             /\ "title" \in DOMAIN result /\ Present(result.title)
             /\ Present(result.summary)
        /\ NoTitle => ~result.found /\ "error" \notin DOMAIN result
        /\ "error" \in DOMAIN result =>
             /\ ~result.found
             /\ ~NoTitle
             /\ TransportFailed \/ ~ExpectedStructure

\* C20: the summary fetch is issued only after the search returned a title,
\* and for that title; a summary fetch answered with a non-success status
\* gives found=true with the short description of the search step as
\* summary, "" if there is none; no title, no summary fetch.
C20_SummaryFetchAndFallback ==
    pc = "searched" =>
        /\ SummaryFetched =>
             /\ SomeTitle
             /\ Present(SearchArray(1).xs[1])
             /\ http[2].url = REST_URL \o "/" \o replace(SearchArray(1).xs[1].s, " ", "_")
        /\ NoTitle => ~SummaryFetched
        /\ SummaryNonSuccess =>
             /\ raised = "none"
             /\ result.found
             /\ result.summary = ShortDescription

(***************************************************************************)
(* select_random_people.                                                   *)
(***************************************************************************)
HasSpace(name) == \E i \in 1..Len(name) : SubSeq(name, i, i) = " "

\* C21: the pairs select_random_people returns come from distinct names of
\* the input, split at the first space: first + " " + last is the name and
\* first has no space (last keeps the further ones); there are at most
\* min(count, len(names)) pairs, exactly that many when every name has a
\* space; no name gives no pair.
C21_PairsOfDistinctNames ==
    pc = "selected" =>
        LET most == IF select_count <= Len(filtered_names)
                    THEN select_count ELSE Len(filtered_names)
        IN
        /\ \E from \in [1..Len(people) -> 1..Len(filtered_names)] :
             /\ \A i, j \in 1..Len(people) : i # j => from[i] # from[j]
             /\ \A i \in 1..Len(people) :
                  filtered_names[from[i]] = people[i][1] \o " " \o people[i][2]
        /\ \A i \in 1..Len(people) : ~HasSpace(people[i][1])
        /\ Len(people) <= most
        /\ (\A k \in 1..Len(filtered_names) : HasSpace(filtered_names[k]))
               => Len(people) = most
        /\ filtered_names = <<>> => people = <<>>

\* A three-word name was selected next to a one-word name.
C21_Witness ==
    /\ pc = "selected"
    /\ filtered_names = <<"Madonna", "Mary Ann Smith", "Isaac Newton">>
    /\ select_count = 3
    /\ people = <<<<"Mary", "Ann Smith">>, <<"Isaac", "Newton">>>>

\* C27: in every pair select_random_people returns both components are
\* non-empty, whatever the input names (a leading space, a trailing space,
\* consecutive spaces).
C27_BothComponentsNonEmpty ==
    pc = "selected" =>
        \A i \in 1..Len(people) : people[i][1] # "" /\ people[i][2] # ""

(***************************************************************************)
(* LLMBackend.__init__.                                                    *)
(***************************************************************************)
ConstructorReturned == pc = "constructed"
ConstructorRaised == pc = "raised"
NoArguments ==
    backend.args = [api_key |-> JNull, model |-> JNull, base_url |-> JNull]
ApiKeyAvailable == backend.env.key # JNull /\ backend.env.key.s # ""
AllExplicit ==
    /\ backend.args.api_key # JNull /\ backend.args.api_key.s # ""
    /\ backend.args.model # JNull /\ backend.args.model.s # ""
    /\ backend.args.base_url # JNull /\ backend.args.base_url.s # ""

\* C22: LLMBackend() with no argument and an API key in the environment
\* returns, with the configured key and the configured base URL followed by
\* "/chat/completions"; with three explicit arguments no Config method is
\* consulted and the arguments are the fields; with no key argument and no
\* key in the environment the constructor raises ValueError.
C22_ConstructorResolution ==
    (ConstructorReturned \/ ConstructorRaised) =>
        /\ (NoArguments /\ ApiKeyAvailable) =>
               /\ ConstructorReturned
               /\ backend.self.api_key = backend.env.key.s
               /\ backend.self.base_url =
                      (IF backend.env.base = JNull THEN "https://openrouter.ai/api/v1"
                       ELSE backend.env.base.s) \o "/chat/completions"
        /\ AllExplicit =>
               /\ ConstructorReturned
               /\ backend.consulted = {}
               /\ backend.self = [api_key |-> backend.args.api_key.s,
                                  model |-> backend.args.model.s,
                                  base_url |-> backend.args.base_url.s]
        /\ (backend.args.api_key = JNull /\ ~ApiKeyAvailable) =>
               ConstructorRaised /\ raised = "ValueError"

(***************************************************************************)
(* format_and_filter_users.                                                *)
(***************************************************************************)
\* The year of a date "YYYY-..." or "YYY-..." is 2000 or earlier: it has
\* fewer than four digits, starts with 0 or 1, or is 2000.
YearText(user) ==
    LET date == user.dob.date
    IN  IF SubSeq(date, 4, 4) = "-" THEN SubSeq(date, 1, 3) ELSE SubSeq(date, 1, 4)
Year2000OrEarlier(user) ==
    \/ Len(YearText(user)) < 4
    \/ SubSeq(YearText(user), 1, 1) \in {"0", "1"}
    \/ YearText(user) = "2000"
EligibleNames(users) ==
    LET kept == SelectSeq(users, Year2000OrEarlier)
    IN  [i \in 1..Len(kept) |-> kept[i].name.first \o " " \o kept[i].name.last]

\* C23: what format_and_filter_users returns is the sequence of the
\* "{first} {last}" names of the records born in 2000 or earlier (2000
\* included, 2001 not), in the order of the records; no record, or only
\* later years, gives the empty list.
C23_NamesBornBy2000InOrder ==
    pc = "filtered" =>
        /\ filtered_names = EligibleNames(api_response.results)
        /\ (\A k \in 1..Len(api_response.results) :
                ~Year2000OrEarlier(api_response.results[k])) => filtered_names = <<>>

\* A record of 2000 is kept, one of 2001 between two kept ones is dropped.
C23_Witness ==
    /\ pc = "filtered"
    /\ api_response.results = <<User("Ada", "Lovelace", "2000-12-31"),
                                User("Tim", "Young", "2001-01-01"),
                                User("Isaac", "Newton", "1985-03-12")>>
    /\ filtered_names = <<"Ada Lovelace", "Isaac Newton">>

(***************************************************************************)
(* identify_person_with_search followed by categorize_identification.      *)
(***************************************************************************)
\* The branch identify_person_with_search took, read from its generative call.
AuthoritativeBranch == calls # <<>> /\ calls[Len(calls)].fn = "invoke"
FallbackBranch == calls # <<>> /\ calls[Len(calls)].fn = "identify_person"

Category(category) == categorized.category = category

\* C24: the category is Verified Notable Person exactly when the lookup
\* returned found=true with a non-empty summary; an identification of the
\* fallback branch is never Verified Notable Person.
C24_VerifiedIffFoundWithSummary ==
    Categorized =>
        /\ Category("Verified Notable Person") <=> (LookupFound /\ SummaryNonEmpty)
        /\ FallbackBranch => ~Category("Verified Notable Person")

\* The generative call failed in transport or was answered with a status
\* other than 200: the text it returned is the one of such a response.
GenFailures == {g \in GenResponses : g.kind = "exc" \/ g.status # 200}
GenCallFailed ==
    \/ AuthoritativeBranch /\ \E g \in GenFailures : generated = invoke("", 150, g)
    \/ FallbackBranch
         /\ \E g \in GenFailures : generated = identify_person(first_name, last_name, g)

\* C25: when the generative call of identify_person_with_search failed, the
\* text it returned contains "Error" and the identification is categorized
\* Error with confidence N/A.
C25_FailedCallCategorizedError ==
    (Categorized /\ GenCallFailed) =>
        /\ Contains(generated, "Error")
        /\ Is("Error", "N/A")

GeneratedHasSourceMarker == Contains(generated, "(Source: Wikipedia -")

\* C29: when the LookupResult carries an error, the identification is never
\* Unknown/Non-Notable, Possibly Notable (Unverified) or Fictional Character;
\* it is Error with confidence N/A unless the generative text has the Source
\* marker.
C29_LookupErrorCategorizedError ==
    (Categorized /\ LookupError) =>
        /\ ~Category("Unknown/Non-Notable")
        /\ ~Category("Possibly Notable (Unverified)")
        /\ ~Category("Fictional Character")
        /\ ~GeneratedHasSourceMarker => Is("Error", "N/A")

\* The search failed and the fallback answered with a plain description.
C29_Witness ==
    /\ Categorized
    /\ LookupError
    /\ FallbackBranch
    /\ generated = "Isaac Newton was an English physicist."
    /\ EndsWith(identification, ErrorNote)
    /\ Is("Error", "N/A")

\* The default rule: none of the four conditions of the chain holds.
DefaultRule ==
    /\ Category("Unknown/Non-Notable")
    /\ ~HasNoArticle

\* C30: an identification categorized Fictional Character or by the default
\* rule comes from a lookup with found=true, a non-empty summary and no url;
\* an identification of the fallback branch is neither.
C30_FictionalOnlyWithoutUrl ==
    Categorized =>
        /\ (Category("Fictional Character") \/ DefaultRule)
               => (LookupFound /\ SummaryNonEmpty /\ ~UrlPresent)
        /\ FallbackBranch => ~(Category("Fictional Character") \/ DefaultRule)

\* A summary without url, summarised as a fictional character.
C30_Witness ==
    /\ Categorized
    /\ LookupFound /\ SummaryNonEmpty /\ ~UrlPresent
    /\ AuthoritativeBranch
    /\ identification = "A fictional character from a movie."
    /\ Is("Fictional Character", "High")

(***************************************************************************)
(* Independence of the iterations of a batch.                              *)
(***************************************************************************)
\* What identify_person_with_search returns for pair k from the responses
\* received during iteration k alone.
OwnIterationText(k) ==
    LET r == search_person(people[k][1], people[k][2],
                           responses[k].search, responses[k].summary)
    IN  IdentifyFromLookup(r.value, people[k][1], people[k][2], responses[k].gen).text

\* Every pair was processed and its full name has an entry.
AllRecorded ==
    /\ Len(returned) = Len(people)
    /\ \A k \in 1..Len(people) : \E i \in 1..Len(results) : results[i].key = FullName(k)

\* C26: when the batch is over every name was processed and recorded,
\* whatever the lookup of another name answered, and the identification
\* stored for a full name is the one determined by the responses of that
\* name's own last iteration.
C26_IterationsIndependent ==
    BatchOver =>
        /\ AllRecorded
        /\ \A i \in 1..Len(results) :
             results[i].value = OwnIterationText(LastIndexOf(results[i].key))

(***************************************************************************)
(* check_if_notable.                                                       *)
(***************************************************************************)
Checked == pc = "checked"
UnknownOrError == Contains(person_name, "Unknown") \/ Contains(person_name, "Error")
\* A keyword of the list occurs in the text, in any letter case.
KeywordOccurs ==
    \E i \in 1..Len(notable_keywords) : ContainsIgnoreCase(person_name, notable_keywords[i])

\* C28: check_if_notable answers NO for a text containing "Unknown" or
\* "Error"; otherwise it answers YES when a keyword of notable_keywords
\* occurs in the text in any letter case, and UNCERTAIN only when none does.
C28_NotableByKeyword ==
    Checked =>
        /\ UnknownOrError => StartsWith(tool_result, "NO")
        /\ (~UnknownOrError /\ KeywordOccurs) => StartsWith(tool_result, "YES")
        /\ StartsWith(tool_result, "UNCERTAIN") => ~KeywordOccurs

====
